---------------------------- MODULE Spec2Model ----------------------------
(***************************************************************************)
(* Model of the webhook receiver (main.go): the bounded in-memory          *)
(* WebhookStore guarded by a sync.RWMutex, and the four HTTP handlers      *)
(* that are its only callers.  Every request is served by its own          *)
(* goroutine (net/http), so the handlers interleave at the lock            *)
(* operations of the store.                                                *)
(***************************************************************************)
EXTENDS Integers, Sequences, FiniteSets, TLC

(* ------------------------------ bounds -------------------------------- *)

\* Number of request goroutines that may be in flight together.
NumProcs == 2

\* No Add is started once nextID (counting the Adds still in flight) would
\* pass this value.
MaxNextID == 7

\* The instants time.Now() returns are 1..MaxClock: every reading is later
\* than the one before until MaxClock is reached.
MaxClock == 3

(* --------------------------- program constants ------------------------ *)

\* store.maxSize (main.go:29)
GlobalMaxSize == 5

\* store.nextID at construction and after Clear (main.go:28, main.go:126)
FirstID == 1

\* the offset of the id segment in the path, len("/webhooks/") (main.go:188,193)
IDOffset == 10

StatusOK == 200
StatusBadRequest == 400
StatusNotFound == 404
StatusMethodNotAllowed == 405

Procs == 1..NumProcs
NoProc == 0

(* ------------------------------ values -------------------------------- *)

\* A decoded JSON value (interface{}): nil, a float64 number or a []interface{}.
JNil == [kind |-> "nil", num |-> 0, elems |-> <<>>]
JNumber(n) == [kind |-> "number", num |-> n, elems |-> <<>>]
JArray(es) == [kind |-> "array", num |-> 0, elems |-> es]

\* The zero time.Time; time.Now() never returns it.
ZeroTime == 0

\* A bug: the payload is not stored.
StoredWebhookNoPayload(id, payload, received) ==
    [ID |-> id, Payload |-> JNil, Received |-> received]

\* type StoredWebhook struct
StoredWebhook(id, payload, received) ==
    [ID |-> id, Payload |-> payload, Received |-> received]

\* StoredWebhook{}: the zero value GetByID returns when nothing is found.
ZeroWebhook == StoredWebhook(0, JNil, ZeroTime)

(* ------------------------------- state -------------------------------- *)

VARIABLES
    webhooks,   \* ws.webhooks: the stored entries, oldest first
    nextID,     \* ws.nextID
    maxSize,    \* ws.maxSize
    muW,        \* ws.mu: the goroutine that holds the writer side, or NoProc
    muReaders,  \* ws.mu: the goroutines counted as readers
    muRWait,    \* ws.mu: readers that arrived while a writer was pending
    now,        \* the instant the next time.Now() returns
    pc,         \* per goroutine: where it stands
    op,         \* per goroutine: the store operation it is running
    method,     \* per goroutine: r.Method of the request it serves
    payload,    \* per goroutine: the decoded body (webhookHandler's payload)
    id,         \* per goroutine: the parsed id (getWebhookByIDHandler's id)
    currentID,  \* per goroutine: Add's currentID
    last,       \* the request the step just taken has rejected, passed on
                \* to the store or answered, if any
    lastWrite,  \* history: the Add or Clear that took effect last
    returned,   \* history: the IDs Add has returned since the last Clear,
                \* in the order in which the Adds released the lock
    overlap,    \* history, per goroutine: since the last Clear its Add has
                \* been in flight together with another Add
    linear,     \* history: the sequential store on which every call that has
                \* taken effect was executed at once, in the order of taking
                \* effect; per goroutine, what its Add returned there
    own         \* history, per client (the goroutine serving it): the Add
                \* that was its last request, and what has happened since

storeVars == <<webhooks, nextID, maxSize>>
muVars == <<muW, muReaders, muRWait>>
localVars == <<method, payload, id, currentID>>
vars == <<webhooks, nextID, maxSize, muW, muReaders, muRWait, now,
          pc, op, method, payload, id, currentID, last, lastWrite, returned,
          overlap, linear, own>>
histVars == <<lastWrite, returned, overlap>>

(* ------------------------- the store's algorithms --------------------- *)

\* The smaller of two numbers (the clock stops at its bound).
Min(a, b) == IF a <= b THEN a ELSE b

\* A bug: the append stamps the stored entries with the new receipt time.
AppendRestamping(ws, w) ==
    [i \in DOMAIN ws |-> [ws[i] EXCEPT !.Received = w.Received]] \o <<w>>

\* A bug: the new entry is put in front of the others.
PrependWebhook(ws, w) == <<w>> \o ws

\* Add: ws.webhooks = append(ws.webhooks, storedWebhook)
AppendWebhook(ws, w) == Append(ws, w)

\* A bug: the increment of nextID is missing.
IncrNextIDMissing(n) == n

\* A bug: nextID is advanced by two.
IncrNextIDTwice(n) == n + 2

\* Add: ws.nextID++
IncrNextID(n) == n + 1

\* A bug: the newest entry is dropped, as a stack would.
EvictNewest(ws, max) ==
    IF Len(ws) > max THEN SubSeq(ws, 1, Len(ws) - 1) ELSE ws

\* A bug: the eviction starts one entry too late.
EvictLate(ws, max) == IF Len(ws) > max + 1 THEN SubSeq(ws, 2, Len(ws)) ELSE ws

\* A bug: the front entry is dropped as soon as the slice has reached
\* maxSize.
EvictEarly(ws, max) == IF Len(ws) >= max THEN SubSeq(ws, 2, Len(ws)) ELSE ws

\* Add: if len(ws.webhooks) > ws.maxSize { ws.webhooks = ws.webhooks[1:] }
Evict(ws, max) == IF Len(ws) > max THEN SubSeq(ws, 2, Len(ws)) ELSE ws

\* A bug: the copy keeps the insertion order.
ReverseCopyForward(ws) == [i \in 1..Len(ws) |-> ws[i]]

\* GetAll: result[i] = ws.webhooks[j] for i counting up and j counting down
\* (Go indexes from 0, the model from 1).
ReverseCopy(ws) == [i \in 1..Len(ws) |-> ws[Len(ws) + 1 - i]]

\* GetByID: the index of the first entry whose ID is wanted, scanning from
\* the front; 0 when the loop runs to its end.
RECURSIVE ScanFrom(_, _, _)
ScanFrom(ws, wanted, i) ==
    IF i > Len(ws) THEN 0
    ELSE IF ws[i].ID = wanted THEN i
    ELSE ScanFrom(ws, wanted, i + 1)

\* A bug: the zero value is returned as found.
GetByIDResultAlwaysFound(ws, wanted) ==
    LET i == ScanFrom(ws, wanted, 1)
    IN  IF i # 0 THEN [webhook |-> ws[i], found |-> TRUE]
        ELSE [webhook |-> ZeroWebhook, found |-> TRUE]

\* GetByID: (webhook, true) for the first match, (StoredWebhook{}, false)
\* otherwise.
GetByIDResult(ws, wanted) ==
    LET i == ScanFrom(ws, wanted, 1)
    IN  IF i # 0 THEN [webhook |-> ws[i], found |-> TRUE]
        ELSE [webhook |-> ZeroWebhook, found |-> FALSE]

\* A bug: the entries are counted after the slice has been replaced.
ClearCountAfterReset(ws) == Len(<<>>)

\* Clear: count := len(ws.webhooks)
ClearCount(ws) == Len(ws)

\* Clear: ws.webhooks = make([]StoredWebhook, 0)
EmptyWebhooks == <<>>

(* ------------------------------ sync.RWMutex -------------------------- *)

\* Lock: the writer side is taken by one goroutine at a time; from then on
\* the writer is pending and new readers queue behind it.
WriterSideFree == muW = NoProc

\* A bug: the writer does not wait for the readers.
ReadersDrainedNotAwaited == TRUE

\* Lock: the pending writer enters once the readers counted before it have
\* all left.
ReadersDrained == muReaders = {}

\* A bug: a reader enters whatever the writers do.
ReaderMayEnterBesideWriter == TRUE

\* A bug: a reader is held back only by a writer that is inside, and passes
\* a writer that is waiting for the readers to leave.
ReaderMayEnterPastWaitingWriter ==
    \A p \in Procs : ~(muW = p /\ pc[p] # "LockWait")

\* RLock: a reader enters at once unless a writer is pending or inside.
ReaderMayEnter == muW = NoProc

(* ------------------------- strings and conversions -------------------- *)

\* Strings are sequences of one-character strings.
HasPrefix(s, pre) == Len(s) >= Len(pre) /\ SubSeq(s, 1, Len(pre)) = pre

\* The value of a decimal digit, -1 for any other character.
DigitVal(c) ==
    CASE c = "0" -> 0 [] c = "1" -> 1 [] c = "2" -> 2 [] c = "3" -> 3
      [] c = "4" -> 4 [] c = "5" -> 5 [] c = "6" -> 6 [] c = "7" -> 7
      [] c = "8" -> 8 [] c = "9" -> 9 [] OTHER -> -1

DigitChar(d) == <<"0", "1", "2", "3", "4", "5", "6", "7", "8", "9">>[d + 1]

\* The decimal numeral of n >= 0, as a client writes an id into a path.
RECURSIVE Itoa(_)
Itoa(n) == IF n < 10 THEN <<DigitChar(n)>>
           ELSE Itoa(n \div 10) \o <<DigitChar(n % 10)>>

\* strconv.Atoi on the digits of s from position i on, n being the value of
\* the digits read so far: any character that is no digit is an error.
RECURSIVE AtoiDigits(_, _, _)
AtoiDigits(s, i, n) ==
    IF i > Len(s) THEN [ok |-> TRUE, val |-> n]
    ELSE IF DigitVal(s[i]) < 0 THEN [ok |-> FALSE, val |-> 0]
    ELSE AtoiDigits(s, i + 1, n * 10 + DigitVal(s[i]))

\* The numeral of the largest int, 1<<63 - 1 (int has 64 bits), and of the
\* magnitude of the smallest.
IntMaxDigits ==
    <<"9", "2", "2", "3", "3", "7", "2", "0", "3", "6", "8", "5", "4", "7", "7",
      "5", "8", "0", "7">>
IntMinDigits ==
    SubSeq(IntMaxDigits, 1, Len(IntMaxDigits) - 1) \o <<"8">>

\* A numeral without its leading zeros.
RECURSIVE StripZeros(_)
StripZeros(s) ==
    IF Len(s) > 0 /\ s[1] = "0" THEN StripZeros(Tail(s)) ELSE s

\* Of two numerals of the same length, a denotes no more than b.
NumeralLE(a, b) ==
    \/ a = b
    \/ \E i \in DOMAIN a :
          /\ \A j \in 1..(i - 1) : a[j] = b[j]
          /\ DigitVal(a[i]) < DigitVal(b[i])

\* strconv.ParseInt's range check: the digits, with the sign, denote a value
\* an int can hold.
InIntRange(digits, negative) ==
    LET sig == StripZeros(digits)
    IN  \/ Len(sig) < Len(IntMaxDigits)
        \/ /\ Len(sig) = Len(IntMaxDigits)
           /\ NumeralLE(sig, IF negative THEN IntMinDigits ELSE IntMaxDigits)

\* A bug: the conversion knows no sign, and no digit is enough for it.
AtoiDigitsOnly(s) ==
    IF ~InIntRange(s, FALSE) THEN [ok |-> FALSE, val |-> 0]
    ELSE AtoiDigits(s, 1, 0)

\* strconv.Atoi: an optional sign, then at least one digit, nothing else,
\* and the value within the range of int.
Atoi(s) ==
    LET signed == Len(s) > 0 /\ s[1] \in {"+", "-"}
        negative == signed /\ s[1] = "-"
        digits == IF signed THEN SubSeq(s, 2, Len(s)) ELSE s
        r == AtoiDigits(digits, 1, 0)
    IN  IF Len(digits) < 1 THEN [ok |-> FALSE, val |-> 0]
        ELSE IF ~InIntRange(digits, negative) THEN [ok |-> FALSE, val |-> 0]
        ELSE IF r.ok /\ negative THEN [ok |-> TRUE, val |-> 0 - r.val]
        ELSE r

\* encoding/json: the white space between tokens (of it, the bodies here
\* use the blank).
IsSpace(c) == c = " "

RECURSIVE SkipSpace(_, _)
SkipSpace(s, i) ==
    IF i <= Len(s) /\ IsSpace(s[i]) THEN SkipSpace(s, i + 1) ELSE i

\* The end of the run of digits of s that starts at i (first index past it).
RECURSIVE DigitsEnd(_, _)
DigitsEnd(s, i) ==
    IF i <= Len(s) /\ DigitVal(s[i]) >= 0 THEN DigitsEnd(s, i + 1) ELSE i

DecodeError == [ok |-> FALSE, val |-> JNil, next |-> 0]

\* json.Decoder reading one value of s from position i on: a number (0, or
\* digits that start with 1-9) or an array of values.  next is the first
\* index past the value.
RECURSIVE DecodeValue(_, _)
RECURSIVE DecodeElems(_, _, _)
DecodeValue(s, i) ==
    LET j == SkipSpace(s, i)
    IN  IF j > Len(s) THEN DecodeError
        ELSE IF DigitVal(s[j]) = 0
        THEN [ok |-> TRUE, val |-> JNumber(0), next |-> j + 1]
        ELSE IF DigitVal(s[j]) > 0
        THEN LET k == DigitsEnd(s, j)
             IN  [ok |-> TRUE,
                  val |-> JNumber(AtoiDigits(SubSeq(s, j, k - 1), 1, 0).val),
                  next |-> k]
        ELSE IF s[j] = "["
        THEN LET k == SkipSpace(s, j + 1)
             IN  IF k <= Len(s) /\ s[k] = "]"
                 THEN [ok |-> TRUE, val |-> JArray(<<>>), next |-> k + 1]
                 ELSE DecodeElems(s, k, <<>>)
        ELSE DecodeError

\* The elements of an array from position i on, acc being those read so far:
\* a value, then "," and the rest, or "]".
DecodeElems(s, i, acc) ==
    LET v == DecodeValue(s, i)
        k == SkipSpace(s, v.next)
    IN  IF ~v.ok \/ k > Len(s) THEN DecodeError
        ELSE IF s[k] = "]"
        THEN [ok |-> TRUE, val |-> JArray(Append(acc, v.val)), next |-> k + 1]
        ELSE IF s[k] = ","
        THEN DecodeElems(s, k + 1, Append(acc, v.val))
        ELSE DecodeError

\* json.NewDecoder(r.Body).Decode(&payload): the first value of the body;
\* what follows it is not read.  An empty or truncated body is an error.
Decode(body) == DecodeValue(body, 1)

(* ------------------------------ requests ------------------------------ *)

Methods == {"GET", "POST"}

PathWebhook == <<"/", "w", "e", "b", "h", "o", "o", "k">>
PathWebhooks == PathWebhook \o <<"s">>
PathWebhooksSlash == PathWebhooks \o <<"/">>
PathClear == PathWebhooksSlash \o <<"c", "l", "e", "a", "r">>

\* The IDs the clients ask for by their numeral: the first and the third the
\* store assigns, and the last one and the first one past the bound on Add.
IDsAsked == {FirstID, FirstID + 2, MaxNextID - 1, MaxNextID}

\* The id segments the clients send: those numerals, segments that are no
\* plain numeral, and the numeral of the first number past the largest int.
IDSegments ==
    {Itoa(n) : n \in IDsAsked}
      \cup {<<>>, <<"x">>, <<"1", "x">>, <<"-", "1">>, <<"+", "1">>, <<"0", "1">>}
      \cup {IntMinDigits}

\* The request bodies the clients send: two that are JSON values, one that
\* starts with a JSON value, and two that hold none.
Bodies == {<<"1">>, <<" ", "[", " ", "]">>, <<"1", "]">>, <<>>, <<"[", "1">>}

\* http.HandleFunc in main: the three exact patterns, then the subtree
\* pattern "/webhooks/"; any other path is the mux's own 404.
Route(path) ==
    IF path = PathWebhook THEN "webhookHandler"
    ELSE IF path = PathWebhooks THEN "getWebhooksHandler"
    ELSE IF path = PathClear THEN "clearWebhooksHandler"
    ELSE IF HasPrefix(path, PathWebhooksSlash) THEN "getWebhookByIDHandler"
    ELSE "NotFound"

\* The paths the clients send below "/webhooks/".
IDPaths == {PathWebhooksSlash \o seg : seg \in IDSegments}

\* idStr := path[10:]
IDSegment(path) == SubSeq(path, IDOffset + 1, Len(path))

\* The requests the clients send to "/webhook": a POST with any of the
\* bodies, and a GET, which has no body.
WebhookRequests ==
    {[method |-> "POST", body |-> b] : b \in Bodies}
      \cup {[method |-> "GET", body |-> <<>>]}

\* The requests the clients send below "/webhooks/": a GET of any of the
\* paths and of "/webhooks/clear", and a POST to a path with a numeral and
\* to one without.
IDRequests ==
    {[method |-> "GET", path |-> path] : path \in IDPaths \cup {PathClear}}
      \cup {[method |-> "POST", path |-> PathWebhooksSlash \o seg] :
               seg \in {Itoa(FirstID), <<"x">>}}

(* ------------------------- results and responses ---------------------- *)

\* What a store operation returned: Add's ID, GetAll's slice, GetByID's
\* pair, Clear's count.
NoRet ==
    [op |-> "none", id |-> 0, webhook |-> ZeroWebhook, found |-> FALSE,
     all |-> <<>>, count |-> 0]

\* A bug: Add returns ws.nextID as it is after the increment.
AddRetAfterIncrement(i) == [NoRet EXCEPT !.op = "Add", !.id = i + 1]

AddRet(i) == [NoRet EXCEPT !.op = "Add", !.id = i]
GetAllRet(ws) == [NoRet EXCEPT !.op = "GetAll", !.all = ws]
GetByIDRet(r) ==
    [NoRet EXCEPT !.op = "GetByID", !.webhook = r.webhook, !.found = r.found]
ClearRet(n) == [NoRet EXCEPT !.op = "Clear", !.count = n]

\* An HTTP response: the status and the value handed to the JSON encoder.
NoResp ==
    [status |-> 0, id |-> 0, webhook |-> ZeroWebhook, webhooks |-> <<>>,
     count |-> 0]

ErrorResp(status) == [NoResp EXCEPT !.status = status]

\* webhookHandler: {"message": ..., "id": assignedID}
WebhookResp(assignedID) == [NoResp EXCEPT !.status = StatusOK, !.id = assignedID]

\* getWebhooksHandler: {"count": len(webhooks), "webhooks": webhooks}
WebhooksResp(ws) ==
    [NoResp EXCEPT !.status = StatusOK, !.count = Len(ws), !.webhooks = ws]

\* getWebhookByIDHandler: 404 when not found, else the webhook
WebhookByIDResp(r) ==
    IF ~r.found THEN ErrorResp(StatusNotFound)
    ELSE [NoResp EXCEPT !.status = StatusOK, !.webhook = r.webhook]

\* clearWebhooksHandler: {"message": ..., "cleared_count": clearedCount}
ClearResp(clearedCount) ==
    [NoResp EXCEPT !.status = StatusOK, !.count = clearedCount]

\* The step just taken was no step of a handler.
NoMethod == ""
NoRequest ==
    [kind |-> "none", handler |-> "none", proc |-> NoProc, method |-> NoMethod,
     path |-> <<>>, body |-> <<>>, payload |-> JNil, id |-> 0,
     beside |-> FALSE, ret |-> NoRet, resp |-> NoResp]

\* A request that its handler has answered with an error, without a call of
\* the store: the request, and the response.
Rejected(handler, m, path, body, status) ==
    [NoRequest EXCEPT !.kind = "rejected", !.handler = handler, !.method = m,
                      !.path = path, !.body = body,
                      !.resp = ErrorResp(status)]

\* A request whose handler, in goroutine p, has called the store: the request.
Called(p, handler, m, path, body) ==
    [NoRequest EXCEPT !.kind = "called", !.handler = handler, !.proc = p,
                      !.method = m, !.path = path, !.body = body]

\* A request that has been answered after a call of the store: its handler
\* and method, the payload or id the handler passed to the store, whether
\* another Add was in flight beside it, what the store returned, and the
\* response.
Answered(handler, m, pl, i, b, r, response) ==
    [NoRequest EXCEPT !.kind = "answered", !.handler = handler, !.method = m,
                      !.payload = pl, !.id = i, !.beside = b, !.ret = r,
                      !.resp = response]

\* History: the write that took effect last.  For a Clear, the number of
\* entries it removed; for an Add, the ID it assigned, its payload, whether
\* the write before it was a Clear and what that Clear removed.
NoWrite ==
    [op |-> "none", id |-> 0, payload |-> JNil, afterClear |-> FALSE,
     cleared |-> 0]
AddWrite(i, pl, prev) ==
    [op |-> "Add", id |-> i, payload |-> pl, afterClear |-> prev.op = "Clear",
     cleared |-> IF prev.op = "Clear" THEN prev.cleared ELSE 0]
ClearWrite(n) == [NoWrite EXCEPT !.op = "Clear", !.cleared = n]

\* History: a client's last request was no Add, or it has made another
\* request since that was no read of what it added.
NoOwn ==
    [entry |-> ZeroWebhook, cleared |-> FALSE, adds |-> 0, lost |-> FALSE,
     outcome |-> "none"]

\* History: the client's Add has stored the entry w and returned its ID; no
\* Clear and no other Add has taken effect since, and the client has not
\* read yet.
OwnAdd(w) == [NoOwn EXCEPT !.entry = w, !.outcome = "added"]

(* ------------------------------- Init --------------------------------- *)

\* var store = &WebhookStore{webhooks: make(...), nextID: 1, maxSize: 5};
\* the zero sync.RWMutex is unlocked; no request is being served.
Init ==
    /\ webhooks = EmptyWebhooks
    /\ nextID = FirstID
    /\ maxSize = GlobalMaxSize
    /\ muW = NoProc
    /\ muReaders = {}
    /\ muRWait = {}
    /\ now = 1
    /\ pc = [p \in Procs |-> "idle"]
    /\ op = [p \in Procs |-> "none"]
    /\ method = [p \in Procs |-> NoMethod]
    /\ payload = [p \in Procs |-> JNil]
    /\ id = [p \in Procs |-> 0]
    /\ currentID = [p \in Procs |-> 0]
    /\ last = NoRequest
    /\ lastWrite = NoWrite
    /\ returned = <<>>
    /\ overlap = [p \in Procs |-> FALSE]
    /\ linear = [webhooks |-> <<>>, nextID |-> FirstID,
                 added |-> [p \in Procs |-> 0]]
    /\ own = [p \in Procs |-> NoOwn]

(* ------------------------- handlers: the entry ------------------------ *)

\* The Adds that have been called and have not yet advanced nextID.
AddsPending == {q \in Procs : op[q] = "Add" /\ pc[q] \in {"Lock", "LockWait", "Append"}}

\* The Adds that have been called and have not yet returned.
AddsInFlight == {q \in Procs : op[q] = "Add"}

\* The bound on the IDs: another Add may be called.
AddBudget == nextID + Cardinality(AddsPending) < MaxNextID

\* A bug: the ID counter is advanced for a request that is answered with an
\* error.
RejectAdvancingNextID(p, observed, handler, m, path, body, status) ==
    /\ last' = Rejected(handler, m, path, body, status)
    /\ nextID' = nextID + 1
    /\ UNCHANGED <<webhooks, maxSize, muVars, now, pc, op, localVars, histVars>>

\* The request is answered with an error and without a call of the store:
\* nothing of the program's state changes.  When the requests are observed,
\* the request and its answer are recorded.
Reject(p, observed, handler, m, path, body, status) ==
    /\ IF observed THEN last' = Rejected(handler, m, path, body, status)
       ELSE UNCHANGED last
    /\ UNCHANGED <<storeVars, muVars, now, pc, op, localVars, histVars>>

\* The handler calls the store operation o, which starts at its lock call.
\* When the requests are observed, the request is recorded.
Call(p, observed, handler, m, path, body, o, lockpc) ==
    /\ pc' = [pc EXCEPT ![p] = lockpc]
    /\ op' = [op EXCEPT ![p] = o]
    /\ method' = [method EXCEPT ![p] = m]
    /\ last' = IF observed THEN Called(p, handler, m, path, body) ELSE NoRequest
    /\ UNCHANGED <<storeVars, muVars, now, currentID, lastWrite, returned>>

\* webhookHandler up to its call of store.Add: 405 unless POST, 400 when the
\* body does not decode.
WebhookHandler(p, observed) ==
    /\ pc[p] = "idle"
    /\ \E r \in WebhookRequests :
          IF r.method # "POST"
          THEN Reject(p, observed, "webhookHandler", r.method, PathWebhook,
                      r.body, StatusMethodNotAllowed)
          ELSE IF ~Decode(r.body).ok
          THEN Reject(p, observed, "webhookHandler", r.method, PathWebhook,
                      r.body, StatusBadRequest)
          ELSE /\ AddBudget
               /\ payload' = [payload EXCEPT ![p] = Decode(r.body).val]
               /\ UNCHANGED id
               /\ overlap' = [q \in Procs |->
                                IF AddsInFlight = {} THEN overlap[q]
                                ELSE overlap[q] \/ q \in AddsInFlight \cup {p}]
               /\ Call(p, observed, "webhookHandler", r.method, PathWebhook,
                       r.body, "Add", "Lock")

\* getWebhooksHandler up to its call of store.GetAll: 405 unless GET.
GetWebhooksHandler(p, observed) ==
    /\ pc[p] = "idle"
    /\ \E m \in Methods :
          IF m # "GET"
          THEN Reject(p, observed, "getWebhooksHandler", m, PathWebhooks, <<>>,
                      StatusMethodNotAllowed)
          ELSE /\ UNCHANGED <<payload, id, overlap>>
               /\ Call(p, observed, "getWebhooksHandler", m, PathWebhooks,
                       <<>>, "GetAll", "RLock")

\* getWebhookByIDHandler up to its call of store.GetByID: 405 unless GET,
\* 400 when the path is shorter than "/webhooks/" or path[10:] is no integer.
GetWebhookByIDHandler(p, observed) ==
    /\ pc[p] = "idle"
    /\ \E r \in IDRequests :
          /\ Route(r.path) = "getWebhookByIDHandler"
          /\ IF r.method # "GET"
             THEN Reject(p, observed, "getWebhookByIDHandler", r.method,
                         r.path, <<>>, StatusMethodNotAllowed)
             ELSE IF Len(r.path) < IDOffset
             THEN Reject(p, observed, "getWebhookByIDHandler", r.method,
                         r.path, <<>>, StatusBadRequest)
             ELSE IF ~Atoi(IDSegment(r.path)).ok
             THEN Reject(p, observed, "getWebhookByIDHandler", r.method,
                         r.path, <<>>, StatusBadRequest)
             ELSE /\ id' = [id EXCEPT ![p] = Atoi(IDSegment(r.path)).val]
                  /\ UNCHANGED <<payload, overlap>>
                  /\ Call(p, observed, "getWebhookByIDHandler", r.method,
                          r.path, <<>>, "GetByID", "RLock")

\* A variant: the clear handler answers 405 unless the method is POST.
ClearWebhooksHandlerPostOnly(p, observed) ==
    /\ pc[p] = "idle"
    /\ \E m \in Methods, path \in {PathClear} :
          /\ Route(path) = "clearWebhooksHandler"
          /\ IF m # "POST"
             THEN Reject(p, observed, "clearWebhooksHandler", m, path, <<>>,
                         StatusMethodNotAllowed)
             ELSE /\ UNCHANGED <<payload, id, overlap>>
                  /\ Call(p, observed, "clearWebhooksHandler", m, path, <<>>,
                          "Clear", "Lock")

\* clearWebhooksHandler up to its call of store.Clear: any method.
ClearWebhooksHandler(p, observed) ==
    /\ pc[p] = "idle"
    /\ \E m \in Methods, path \in {PathClear} :
          /\ Route(path) = "clearWebhooksHandler"
          /\ UNCHANGED <<payload, id, overlap>>
          /\ Call(p, observed, "clearWebhooksHandler", m, path, <<>>,
                  "Clear", "Lock")

(* ------------------------------ the lock ------------------------------ *)

\* ws.mu.Lock(), first half: take the writer side; the writer is pending.
Lock(p) ==
    /\ pc[p] = "Lock"
    /\ WriterSideFree
    /\ muW' = p
    /\ pc' = [pc EXCEPT ![p] = "LockWait"]
    /\ last' = NoRequest
    /\ UNCHANGED <<storeVars, muReaders, muRWait, now, op, localVars, histVars>>

\* ws.mu.Lock(), second half: wait for the readers to leave, then enter.
LockWait(p) ==
    /\ pc[p] = "LockWait"
    /\ ReadersDrained
    /\ pc' = [pc EXCEPT ![p] = IF op[p] = "Add" THEN "Append" ELSE "ClearBody"]
    /\ last' = NoRequest
    /\ UNCHANGED <<storeVars, muVars, now, op, localVars, histVars>>

\* ws.mu.Unlock(): the readers that queued behind the writer all become
\* readers, and the writer side is free again.
Unlock ==
    /\ muW' = NoProc
    /\ muReaders' = muRWait
    /\ muRWait' = {}

\* Where a reader stands once it holds the read lock.
ReadBody(p) == IF op[p] = "GetAll" THEN "Copy" ELSE "Scan"

\* ws.mu.RLock(): enter, or queue behind the pending writer.
RLock(p) ==
    /\ pc[p] = "RLock"
    /\ IF ReaderMayEnter
       THEN /\ muReaders' = muReaders \cup {p}
            /\ pc' = [pc EXCEPT ![p] = ReadBody(p)]
            /\ UNCHANGED muRWait
       ELSE /\ muRWait' = muRWait \cup {p}
            /\ pc' = [pc EXCEPT ![p] = "RBlocked"]
            /\ UNCHANGED muReaders
    /\ last' = NoRequest
    /\ UNCHANGED <<storeVars, muW, now, op, localVars, histVars>>

\* ws.mu.RLock() returning in a reader that had queued: the writer's Unlock
\* has made it a reader.
RLockWake(p) ==
    /\ pc[p] = "RBlocked"
    /\ p \in muReaders
    /\ pc' = [pc EXCEPT ![p] = ReadBody(p)]
    /\ last' = NoRequest
    /\ UNCHANGED <<storeVars, muVars, now, op, localVars, histVars>>

\* ws.mu.RUnlock()
RUnlock(p) ==
    /\ muReaders' = muReaders \ {p}
    /\ UNCHANGED <<muW, muRWait>>

(* ------------------------- the store operations ---------------------- *)

\* The operation returns to its handler, which writes the response and ends;
\* the goroutine's variables end with it.
Return(p, handler, r, response) ==
    /\ pc' = [pc EXCEPT ![p] = "idle"]
    /\ op' = [op EXCEPT ![p] = "none"]
    /\ method' = [method EXCEPT ![p] = NoMethod]
    /\ payload' = [payload EXCEPT ![p] = JNil]
    /\ id' = [id EXCEPT ![p] = 0]
    /\ currentID' = [currentID EXCEPT ![p] = 0]
    /\ last' = Answered(handler, method[p], payload[p], id[p], overlap[p], r,
                        response)

\* Add, under the lock: build the entry from ws.nextID, the payload and
\* time.Now(), append it, keep the ID in currentID, advance ws.nextID.
AddAppend(p) ==
    /\ pc[p] = "Append"
    /\ webhooks' = AppendWebhook(webhooks, StoredWebhook(nextID, payload[p], now))
    /\ currentID' = [currentID EXCEPT ![p] = nextID]
    /\ nextID' = IncrNextID(nextID)
    /\ pc' = [pc EXCEPT ![p] = "Evict"]
    /\ last' = NoRequest
    /\ now' = Min(now + 1, MaxClock)
    /\ lastWrite' = AddWrite(nextID, payload[p], lastWrite)
    /\ UNCHANGED <<maxSize, muVars, op, method, payload, id, returned, overlap>>

\* Add, under the lock: drop the front entry when the slice has outgrown
\* maxSize; then return currentID (the deferred Unlock runs), and
\* webhookHandler answers 200 with the ID.
AddEvict(p) ==
    /\ pc[p] = "Evict"
    /\ webhooks' = Evict(webhooks, maxSize)
    /\ Unlock
    /\ Return(p, "webhookHandler", AddRet(currentID[p]), WebhookResp(currentID[p]))
    /\ returned' = Append(returned, AddRet(currentID[p]).id)
    /\ overlap' = [overlap EXCEPT ![p] = FALSE]
    /\ UNCHANGED <<nextID, maxSize, now, lastWrite>>

\* Clear, under the lock: count the entries, replace the slice by an empty
\* one, reset nextID, return the count; clearWebhooksHandler answers with it.
ClearBody(p) ==
    /\ pc[p] = "ClearBody"
    /\ webhooks' = EmptyWebhooks
    /\ nextID' = FirstID
    /\ Unlock
    /\ Return(p, "clearWebhooksHandler", ClearRet(ClearCount(webhooks)),
              ClearResp(ClearCount(webhooks)))
    /\ lastWrite' = ClearWrite(Len(webhooks))
    /\ returned' = <<>>
    /\ overlap' = [q \in Procs |-> q \in AddsInFlight /\ Cardinality(AddsInFlight) > 1]
    /\ UNCHANGED <<maxSize, now>>

\* GetAll, under the read lock: copy the slice back to front and return the
\* copy; getWebhooksHandler answers with it and its length.
GetAllCopy(p) ==
    /\ pc[p] = "Copy"
    /\ RUnlock(p)
    /\ Return(p, "getWebhooksHandler", GetAllRet(ReverseCopy(webhooks)),
              WebhooksResp(ReverseCopy(webhooks)))
    /\ UNCHANGED <<storeVars, now, histVars>>

\* GetByID, under the read lock: scan for the id and return what was found;
\* getWebhookByIDHandler answers 404 or the webhook.
GetByIDScan(p) ==
    /\ pc[p] = "Scan"
    /\ RUnlock(p)
    /\ Return(p, "getWebhookByIDHandler", GetByIDRet(GetByIDResult(webhooks, id[p])),
              WebhookByIDResp(GetByIDResult(webhooks, id[p])))
    /\ UNCHANGED <<storeVars, now, histVars>>

(* ------------------------------ history ------------------------------- *)

\* The steps at which the store operations take effect or return.
AddTakesEffect(p) == pc[p] = "Append" /\ pc'[p] = "Evict"
AddReturns(p) == pc[p] = "Evict" /\ pc'[p] = "idle"
ClearTakesEffect(p) == pc[p] = "ClearBody" /\ pc'[p] = "idle"
GetAllTakesEffect(p) == pc[p] = "Copy" /\ pc'[p] = "idle"
GetByIDTakesEffect(p) == pc[p] = "Scan" /\ pc'[p] = "idle"
TakesUp(p) == pc[p] = "idle" /\ pc'[p] # "idle"

\* The sequential bounded store: Add of the payload pl at the instant t
\* stores an entry under the next ID, dropping the oldest entry when there
\* are maxSize already, and returns that ID; Clear empties the store, starts
\* the IDs again and returns the number of entries removed.
SeqAdd(s, pl, t) ==
    LET w == [ID |-> s.nextID, Payload |-> pl, Received |-> t]
    IN  [webhooks |-> IF Len(s.webhooks) < GlobalMaxSize
                      THEN Append(s.webhooks, w)
                      ELSE Append(Tail(s.webhooks), w),
         nextID |-> s.nextID + 1,
         result |-> s.nextID]
SeqClear(s) ==
    [webhooks |-> <<>>, nextID |-> FirstID, result |-> Len(s.webhooks)]

\* The sequential store follows the store operations: each is executed on
\* it, at once, in the step at which it takes effect.
ObserveLinear ==
    linear' =
        IF \E p \in Procs : AddTakesEffect(p)
        THEN LET p == CHOOSE q \in Procs : AddTakesEffect(q)
                 r == SeqAdd(linear, payload[p], now)
             IN  [webhooks |-> r.webhooks, nextID |-> r.nextID,
                  added |-> [linear.added EXCEPT ![p] = r.result]]
        ELSE IF \E p \in Procs : ClearTakesEffect(p)
        THEN [linear EXCEPT !.webhooks = SeqClear(linear).webhooks,
                            !.nextID = SeqClear(linear).nextID]
        ELSE IF \E p \in Procs : AddReturns(p)
        THEN LET p == CHOOSE q \in Procs : AddReturns(q)
             IN  [linear EXCEPT !.added[p] = 0]
        ELSE linear

\* What a client finds of the entry w it added, in the result r of the read
\* that follows: that entry, another entry under its ID, or none.
ReadOutcome(w, r) ==
    LET ws == IF r.op = "GetAll" THEN r.all
              ELSE IF r.found THEN <<r.webhook>> ELSE <<>>
    IN  IF \E i \in DOMAIN ws : ws[i] = w THEN "same"
        ELSE IF \E i \in DOMAIN ws : ws[i].ID = w.ID THEN "other"
        ELSE "missing"

\* The clients that are followed: the first.
Followed == {p \in Procs : \A q \in Procs : p <= q}

\* A client is followed.  Its Add returns: remember the entry.  Its next
\* request is a GetAll or a GetByID of that entry's ID: remember that it is
\* reading and whether the store has lost the entry already, and then what
\* it finds, for one step; it is any other request: forget the entry.
\* Until the client has read, note the Clear that takes effect, and before
\* any Clear count the other clients' Adds that take effect, up to maxSize.
ObserveClients ==
    own' = [p \in Procs |->
        IF p \notin Followed THEN NoOwn
        ELSE IF AddReturns(p) THEN OwnAdd(webhooks[Len(webhooks)])
        ELSE IF TakesUp(p)
        THEN IF /\ own[p].outcome = "added"
                /\ \/ op'[p] = "GetAll"
                   \/ op'[p] = "GetByID" /\ id'[p] = own[p].entry.ID
             THEN [own[p] EXCEPT
                     !.outcome = "reading",
                     !.lost = \A i \in DOMAIN webhooks :
                                  webhooks[i] # own[p].entry]
             ELSE NoOwn
        ELSE IF own[p].outcome = "reading"
                /\ (GetAllTakesEffect(p) \/ GetByIDTakesEffect(p))
        THEN [own[p] EXCEPT !.outcome = ReadOutcome(own[p].entry, last'.ret)]
        ELSE IF own[p].outcome \notin {"added", "reading"} THEN NoOwn
        ELSE IF \E q \in Procs : ClearTakesEffect(q)
        THEN [own[p] EXCEPT !.cleared = TRUE, !.adds = 0]
        ELSE IF ~own[p].cleared /\ \E q \in Procs \ {p} : AddTakesEffect(q)
        THEN [own[p] EXCEPT !.adds = Min(own[p].adds + 1, maxSize)]
        ELSE own[p]]

\* Every step is followed on the sequential store, and the clients are
\* followed where that is asked for.
Watch(clients) ==
    /\ ObserveLinear
    /\ IF clients THEN ObserveClients ELSE UNCHANGED own

(* --------------------------- the specification ------------------------ *)

Next ==
    \/ \E p \in Procs : WebhookHandler(p, FALSE) /\ Watch(FALSE)
    \/ \E p \in Procs : GetWebhooksHandler(p, FALSE) /\ Watch(FALSE)
    \/ \E p \in Procs : GetWebhookByIDHandler(p, FALSE) /\ Watch(FALSE)
    \/ \E p \in Procs : ClearWebhooksHandler(p, FALSE) /\ Watch(FALSE)
    \/ \E p \in Procs : Lock(p) /\ Watch(FALSE)
    \/ \E p \in Procs : LockWait(p) /\ Watch(FALSE)
    \/ \E p \in Procs : RLock(p) /\ Watch(FALSE)
    \/ \E p \in Procs : RLockWake(p) /\ Watch(FALSE)
    \/ \E p \in Procs : AddAppend(p) /\ Watch(FALSE)
    \/ \E p \in Procs : AddEvict(p) /\ Watch(FALSE)
    \/ \E p \in Procs : ClearBody(p) /\ Watch(FALSE)
    \/ \E p \in Procs : GetAllCopy(p) /\ Watch(FALSE)
    \/ \E p \in Procs : GetByIDScan(p) /\ Watch(FALSE)

Spec == Init /\ [][Next]_vars

\* The requests served one at a time, each of them observed: a request is
\* taken up only when no other is being served.
OneAtATime(p) == \A q \in Procs \ {p} : pc[q] = "idle"

NextHTTP ==
    \/ \E p \in Procs :
          OneAtATime(p) /\ WebhookHandler(p, TRUE) /\ Watch(FALSE)
    \/ \E p \in Procs :
          OneAtATime(p) /\ GetWebhooksHandler(p, TRUE) /\ Watch(FALSE)
    \/ \E p \in Procs :
          OneAtATime(p) /\ GetWebhookByIDHandler(p, TRUE) /\ Watch(FALSE)
    \/ \E p \in Procs :
          OneAtATime(p) /\ ClearWebhooksHandler(p, TRUE) /\ Watch(FALSE)
    \/ \E p \in Procs : Lock(p) /\ Watch(FALSE)
    \/ \E p \in Procs : LockWait(p) /\ Watch(FALSE)
    \/ \E p \in Procs : RLock(p) /\ Watch(FALSE)
    \/ \E p \in Procs : AddAppend(p) /\ Watch(FALSE)
    \/ \E p \in Procs : AddEvict(p) /\ Watch(FALSE)
    \/ \E p \in Procs : ClearBody(p) /\ Watch(FALSE)
    \/ \E p \in Procs : GetAllCopy(p) /\ Watch(FALSE)
    \/ \E p \in Procs : GetByIDScan(p) /\ Watch(FALSE)

SpecHTTP == Init /\ [][NextHTTP]_vars

\* The client that is followed reads only what it has just added, with a
\* GetAll or a GetByID of the ID its Add returned; the other clients add
\* and clear.
ReadsOwn(p) ==
    /\ p \in Followed
    /\ own[p].outcome = "added"
    /\ op'[p] = "GetByID" => id'[p] = own[p].entry.ID

NextClients ==
    \/ \E p \in Procs : WebhookHandler(p, FALSE) /\ Watch(TRUE)
    \/ \E p \in Procs :
          GetWebhooksHandler(p, FALSE) /\ ReadsOwn(p) /\ Watch(TRUE)
    \/ \E p \in Procs :
          GetWebhookByIDHandler(p, FALSE) /\ ReadsOwn(p) /\ Watch(TRUE)
    \/ \E p \in Procs \ Followed :
          ClearWebhooksHandler(p, FALSE) /\ Watch(TRUE)
    \/ \E p \in Procs : Lock(p) /\ Watch(TRUE)
    \/ \E p \in Procs : LockWait(p) /\ Watch(TRUE)
    \/ \E p \in Procs : RLock(p) /\ Watch(TRUE)
    \/ \E p \in Procs : RLockWake(p) /\ Watch(TRUE)
    \/ \E p \in Procs : AddAppend(p) /\ Watch(TRUE)
    \/ \E p \in Procs : AddEvict(p) /\ Watch(TRUE)
    \/ \E p \in Procs : ClearBody(p) /\ Watch(TRUE)
    \/ \E p \in Procs : GetAllCopy(p) /\ Watch(TRUE)
    \/ \E p \in Procs : GetByIDScan(p) /\ Watch(TRUE)

SpecClients == Init /\ [][NextClients]_vars

\* Fair scheduling of the request goroutines. A goroutine that can run its
\* next step of a store operation is eventually scheduled, and a goroutine
\* in ws.mu.Lock() eventually takes the writer side if that is free again
\* and again: the sync.Mutex inside sync.RWMutex hands itself to the oldest
\* waiter. Requests need not arrive, so the handlers' entries are not fair.
Runs(p) ==
    /\ \/ LockWait(p)
       \/ RLock(p)
       \/ RLockWake(p)
       \/ AddAppend(p)
       \/ AddEvict(p)
       \/ ClearBody(p)
       \/ GetAllCopy(p)
       \/ GetByIDScan(p)
    /\ Watch(FALSE)

FairScheduling ==
    \A p \in Procs :
        /\ WF_vars(Runs(p))
        /\ SF_vars(Lock(p) /\ Watch(FALSE))

\* The lock does not look at what a request carries: under fair scheduling
\* every POST carries the same payload and every GET by ID asks for the
\* same ID.
OneKind(p) ==
    /\ op'[p] = "Add" => payload'[p] = JNumber(1)
    /\ op'[p] = "GetByID" => id'[p] = FirstID

NextFair ==
    \/ \E p \in Procs : WebhookHandler(p, FALSE) /\ OneKind(p) /\ Watch(FALSE)
    \/ \E p \in Procs : GetWebhooksHandler(p, FALSE) /\ Watch(FALSE)
    \/ \E p \in Procs :
          GetWebhookByIDHandler(p, FALSE) /\ OneKind(p) /\ Watch(FALSE)
    \/ \E p \in Procs : ClearWebhooksHandler(p, FALSE) /\ Watch(FALSE)
    \/ \E p \in Procs : Lock(p) /\ Watch(FALSE)
    \/ \E p \in Procs : Runs(p)

SpecFair == Init /\ [][NextFair]_vars /\ FairScheduling

(* ------------------------------ properties ---------------------------- *)

\* A goroutine is inside Add's or Clear's critical section: it holds the lock
\* as the writer.
WriterInside(p) == pc[p] \in {"Append", "Evict", "ClearBody"}

\* A goroutine is inside GetAll's or GetByID's critical section.
ReaderInside(p) == pc[p] \in {"Copy", "Scan"}

NoWriterInside == \A p \in Procs : ~WriterInside(p)

\* The IDs of a sequence of entries, in its order.
IDsOf(ws) == [i \in DOMAIN ws |-> ws[i].ID]

StrictlyIncreasing(f) == \A i, j \in DOMAIN f : i < j => f[i] < f[j]

\* C1: whenever no writer holds the store's lock, the store holds at most
\* maxSize webhooks, and maxSize is the 5 of the global store.
C1_SizeBounded ==
    NoWriterInside => Len(webhooks) <= maxSize /\ maxSize = GlobalMaxSize

\* C1 witness: more Adds than maxSize have returned, the store is full and
\* the lock is free.
C1_Witness ==
    /\ NoWriterInside
    /\ Len(returned) > maxSize
    /\ Len(webhooks) = maxSize

\* The stored IDs are pairwise distinct and increase from front to back.
StoredIDsIncreasing == StrictlyIncreasing(IDsOf(webhooks))

\* A step lowers nextID only if it is Clear's, and then to 1.
NextIDLoweredOnlyByClear ==
    nextID' < nextID =>
        /\ nextID' = FirstID
        /\ \E p \in Procs : pc[p] = "ClearBody" /\ pc'[p] = "idle"

\* C2: in every reachable state the stored IDs are pairwise distinct and
\* strictly increasing from the oldest (front) to the newest (back) entry, and
\* nextID is lowered by Clear alone, which sets it to 1; every other step
\* leaves it unchanged or increases it.
C2_IDsIncreasingNextIDMonotone ==
    []StoredIDsIncreasing /\ [][NextIDLoweredOnlyByClear]_vars

\* C2 witness: a Clear has just emptied a full store, lowering nextID from
\* beyond maxSize to 1.
C2_Witness ==
    /\ last.ret.op = "Clear"
    /\ last.ret.count = maxSize
    /\ nextID = FirstID
    /\ webhooks = <<>>

\* C3: of two Adds with no Clear between them, the one that releases the
\* lock later returns the strictly greater ID; an Add invoked after another
\* has returned takes and releases the lock after it, so the ID it returns is
\* strictly greater than the ID the first returned.
C3_SuccessiveAddsIncrease == StrictlyIncreasing(returned)

\* C3 witness: an Add has returned that was in flight beside no other Add,
\* after an earlier Add of the same store lifetime had returned.
C3_Witness ==
    /\ last.ret.op = "Add"
    /\ ~last.beside
    /\ Len(returned) >= 2

\* C4: the IDs that the Adds since the last Clear have returned, concurrent
\* or not, are pairwise different and form the gap-free run that starts at
\* the value nextID had before the first of them; with the lock free, nextID
\* is the end of that run.
C4_ConcurrentAddsGapFree ==
    /\ \A i \in DOMAIN returned : returned[i] = FirstID + i - 1
    /\ NoWriterInside => nextID = FirstID + Len(returned)

\* C4 witness: an Add has returned that was in flight together with another
\* Add since the last Clear, and that other Add has returned too.
C4_Witness ==
    /\ last.ret.op = "Add"
    /\ last.beside
    /\ AddsInFlight = {}
    /\ Len(returned) >= 2

\* The set of the elements of a sequence.
Range(f) == {f[i] : i \in DOMAIN f}

\* The largest n members of a sequence of numbers that increases.
LastN(f, n) == {f[i] : i \in (Len(f) - n + 1)..Len(f)}

\* C5: when more Adds than maxSize have taken effect on the store since it
\* was last empty by construction or Clear, GetAll returns exactly maxSize
\* entries: those with the maxSize largest IDs, the first ID of the run not
\* among them.
C5_GetAllAfterOverflow ==
    (last.ret.op = "GetAll" /\ Len(returned) > maxSize) =>
        /\ Len(last.ret.all) = maxSize
        /\ Range(IDsOf(last.ret.all)) = LastN(returned, maxSize)
        /\ returned[1] \notin Range(IDsOf(last.ret.all))

\* C5 witness: a GetAll has returned after more than maxSize Adds.
C5_Witness ==
    /\ last.ret.op = "GetAll"
    /\ Len(returned) > maxSize
    /\ Len(last.ret.all) = maxSize

\* C6: when GetByID(id) takes effect and the write before it is an Add that
\* was given payload P and returned id (no write, and so also no operation at
\* all, between them), it returns found with the record of that ID and
\* payload; the numeral of id in the path reads back as id, and the handler
\* answers 200 with that record.
C6_GetByIDAfterAdd ==
    (/\ last.ret.op = "GetByID"
     /\ lastWrite.op = "Add"
     /\ returned # <<>>
     /\ last.id = returned[Len(returned)]) =>
        /\ last.ret.found
        /\ last.ret.webhook.ID = last.id
        /\ last.ret.webhook.Payload = lastWrite.payload
        /\ Atoi(Itoa(last.id)) = [ok |-> TRUE, val |-> last.id]
        /\ last.resp.status = StatusOK
        /\ last.resp.webhook = last.ret.webhook

\* C6 witness: a GetByID has returned for the ID of the latest Add, whose
\* payload was an array, with no write between them.
C6_Witness ==
    /\ last.ret.op = "GetByID"
    /\ lastWrite.op = "Add"
    /\ lastWrite.payload = JArray(<<>>)
    /\ returned # <<>>
    /\ last.id = returned[Len(returned)]
    /\ last.ret.found

\* C7, as a step: Clear returns the number of entries stored before it,
\* leaves no entry and sets nextID to 1; the Add that takes effect next after
\* a Clear stores its entry under ID 1 and returns 1.
ClearThenAddStep ==
    \A p \in Procs :
        /\ (pc[p] = "ClearBody" /\ pc'[p] = "idle") =>
              /\ last'.ret.count = Len(webhooks)
              /\ last'.resp.count = Len(webhooks)
              /\ webhooks' = <<>>
              /\ nextID' = FirstID
        /\ (pc[p] = "Append" /\ pc'[p] = "Evict" /\ lastWrite.op = "Clear") =>
              /\ webhooks' = <<StoredWebhook(FirstID, payload[p], now)>>
              /\ currentID'[p] = FirstID
        /\ (pc[p] = "Evict" /\ pc'[p] = "idle" /\ lastWrite.afterClear) =>
              last'.ret.id = FirstID

\* C7: from any reachable state, Clear returns the number of entries stored
\* immediately before it, leaves the store with 0 entries, and resets the ID
\* counter so that the next Add to take effect is assigned ID 1.
C7_ClearResets == [][ClearThenAddStep]_vars

\* C7 witness: an Add has returned 1 whose preceding write was a Clear that
\* removed a full store.
C7_Witness ==
    /\ last.ret.op = "Add"
    /\ last.ret.id = FirstID
    /\ lastWrite.afterClear
    /\ lastWrite.cleared = maxSize

\* C8: GetByID(id) returns found exactly when an entry with that ID is
\* stored, and then that entry; otherwise it returns not found with the zero
\* record, and the handler answers 404.  A record reported as found is never
\* the zero record.
C8_GetByIDFoundIffStored ==
    last.ret.op = "GetByID" =>
        LET stored == {w \in Range(webhooks) : w.ID = last.id}
        IN  /\ last.ret.found <=> stored # {}
            /\ last.ret.found =>
                  /\ stored = {last.ret.webhook}
                  /\ last.ret.webhook # ZeroWebhook
                  /\ last.resp.status = StatusOK
            /\ ~last.ret.found =>
                  /\ last.ret.webhook = ZeroWebhook
                  /\ last.resp.status = StatusNotFound

\* C8 witness: a GetByID has returned not found for an ID that was assigned
\* since the last Clear and has been evicted.
C8_Witness ==
    /\ last.ret.op = "GetByID"
    /\ ~last.ret.found
    /\ last.id \in Range(returned)
    /\ Len(returned) > maxSize

\* The reverse of a sequence, by recursion on its head.
RECURSIVE Reversed(_)
Reversed(f) == IF f = <<>> THEN <<>> ELSE Append(Reversed(Tail(f)), Head(f))

\* C9: GetAll returns all stored entries, each once, most recent first: the
\* reverse of the stored order, of the stored length, its IDs strictly
\* decreasing; the handler answers with it and its length.
C9_GetAllMostRecentFirst ==
    last.ret.op = "GetAll" =>
        /\ last.ret.all = Reversed(webhooks)
        /\ Len(last.ret.all) = Len(webhooks)
        /\ \A i, j \in DOMAIN last.ret.all :
              i < j => last.ret.all[i].ID > last.ret.all[j].ID
        /\ last.resp.webhooks = last.ret.all
        /\ last.resp.count = Len(webhooks)

\* C9 witness: a GetAll has returned a full store whose entries differ in
\* payload.
C9_Witness ==
    /\ last.ret.op = "GetAll"
    /\ Len(last.ret.all) = maxSize
    /\ last.ret.all[1].Payload # last.ret.all[maxSize].Payload

\* C10: no Add or Clear is inside its critical section while any other store
\* operation is inside its own; GetAll and GetByID may be inside together.
C10_LockDiscipline ==
    \A p, q \in Procs :
        (p # q /\ WriterInside(p)) => ~WriterInside(q) /\ ~ReaderInside(q)

\* C10 witness: two readers are inside their critical sections together
\* while a writer is kept waiting or none has called.
C10_Witness ==
    \E p, q \in Procs : p # q /\ ReaderInside(p) /\ ReaderInside(q)

\* The bodies the clients send that are JSON texts.
JSONTexts == {<<"1">>, <<" ", "[", " ", "]">>}

\* C11, as a step.  A request to "/webhook" is rejected with 405 exactly
\* when it is no POST and with 400 only when its body is no JSON text, and
\* the rejection changes nothing of the store; any other request calls Add
\* with the decoded body; the answer after Add is 200 with the ID Add
\* returned, and then exactly one entry with that ID and the request's
\* payload has been stored, at the back, and nextID is that ID plus one.
WebhookHandlerStep ==
    /\ (last'.kind = "rejected" /\ last'.handler = "webhookHandler") =>
          /\ last'.resp.status \in {StatusMethodNotAllowed, StatusBadRequest}
          /\ last'.resp.status = StatusMethodNotAllowed <=> last'.method # "POST"
          /\ last'.method = "POST" => last'.body \notin JSONTexts
          /\ UNCHANGED <<webhooks, nextID, maxSize>>
    /\ (last'.kind = "called" /\ last'.handler = "webhookHandler") =>
          /\ last'.method = "POST"
          /\ op'[last'.proc] = "Add"
          /\ payload'[last'.proc] = Decode(last'.body).val
          /\ UNCHANGED <<webhooks, nextID, maxSize>>
    /\ (last'.kind = "answered" /\ last'.handler = "webhookHandler") =>
          /\ last'.method = "POST"
          /\ last'.resp.status = StatusOK
          /\ last'.resp.id = last'.ret.id
          /\ \E p \in Procs : pc[p] = "Evict" /\ pc'[p] = "idle"
                                /\ currentID[p] = last'.ret.id
          /\ Cardinality({i \in DOMAIN webhooks' :
                             webhooks'[i].ID = last'.resp.id}) = 1
          /\ webhooks'[Len(webhooks')].ID = last'.resp.id
          /\ webhooks'[Len(webhooks')].Payload = last'.payload
          /\ nextID' = last'.resp.id + 1

Unsigned(s) == IF s # <<>> /\ s[1] \in {"+", "-"} THEN Tail(s) ELSE s
IsDecimalInteger(s) ==
    /\ Unsigned(s) # <<>>
    /\ \A i \in DOMAIN Unsigned(s) :
          Unsigned(s)[i] \in {"0", "1", "2", "3", "4", "5", "6", "7", "8", "9"}

\* The number a decimal integer denotes.
RECURSIVE DigitsValue(_)
DigitsValue(d) ==
    IF d = <<>> THEN 0
    ELSE 10 * DigitsValue(SubSeq(d, 1, Len(d) - 1)) + DigitVal(d[Len(d)])
DecimalValue(s) ==
    IF s[1] = "-" THEN 0 - DigitsValue(Unsigned(s)) ELSE DigitsValue(Unsigned(s))

\* A decimal integer that an int can hold.
IsInt(s) == IsDecimalInteger(s) /\ InIntRange(Unsigned(s), s[1] = "-")

\* C12, as a step, IsID(seg) telling the id segments that are taken for an
\* ID.  A request below "/webhooks/" is rejected with 405 exactly when it is
\* no GET, and otherwise with 400 exactly when its id segment is no ID; any
\* other request calls GetByID with the number the segment denotes; the
\* answer after GetByID is 404 when no entry with that ID is stored and else
\* 200 with the stored entry.  None of these steps, nor any step of GetByID,
\* changes the store.
WebhookByIDHandlerStep(IsID(_)) ==
    /\ (last'.kind = "rejected" /\ last'.handler = "getWebhookByIDHandler") =>
          /\ Route(last'.path) = "getWebhookByIDHandler"
          /\ last'.resp.status =
                IF last'.method # "GET" THEN StatusMethodNotAllowed
                ELSE StatusBadRequest
          /\ last'.method = "GET" => ~IsID(IDSegment(last'.path))
          /\ UNCHANGED <<webhooks, nextID, maxSize>>
    /\ (last'.kind = "called" /\ last'.handler = "getWebhookByIDHandler") =>
          /\ Route(last'.path) = "getWebhookByIDHandler"
          /\ last'.method = "GET"
          /\ IsID(IDSegment(last'.path))
          /\ op'[last'.proc] = "GetByID"
          /\ id'[last'.proc] = DecimalValue(IDSegment(last'.path))
          /\ UNCHANGED <<webhooks, nextID, maxSize>>
    /\ (last'.kind = "answered" /\ last'.handler = "getWebhookByIDHandler") =>
          LET stored == {i \in DOMAIN webhooks : webhooks[i].ID = last'.id}
          IN  /\ last'.method = "GET"
              /\ IF stored = {}
                 THEN last'.resp = ErrorResp(StatusNotFound)
                 ELSE /\ last'.resp.status = StatusOK
                      /\ \A i \in stored : last'.resp.webhook = webhooks[i]
              /\ UNCHANGED <<webhooks, nextID, maxSize>>
    /\ \A p \in Procs :
          (op[p] = "GetByID" /\ pc'[p] # pc[p]) =>
              UNCHANGED <<webhooks, nextID, maxSize>>

\* C12 as stated: the by-ID handler answers a request that is no GET with
\* 405; otherwise, when the id segment of the path is no decimal integer
\* (the empty segment included), with 400; otherwise, when no webhook with
\* that ID is stored, with 404; otherwise with 200 and the stored record.
\* In every case the store is left unchanged.
C12_AsStated == [][WebhookByIDHandlerStep(IsDecimalInteger)]_vars

\* C12, amended: as stated, with 400 also for the id segment that is a
\* decimal integer no int can hold; 404 or 200 only for the others.
C12_ByIDStatuses == [][WebhookByIDHandlerStep(IsInt)]_vars

\* C12 witness: a GET whose id segment is the numeral of 1<<63 has been
\* answered 400 while the store holds entries.
C12_Witness ==
    /\ last.kind = "rejected"
    /\ last.handler = "getWebhookByIDHandler"
    /\ last.method = "GET"
    /\ IDSegment(last.path) = IntMinDigits
    /\ last.resp.status = StatusBadRequest
    /\ webhooks # <<>>

\* C13, as a step.  A request to "/webhooks/clear" is never handled by the
\* by-ID handler, nor by any handler but the clear handler, which rejects
\* no request: whatever the method, it calls Clear, and its answer after
\* Clear is 200 with the number of entries stored just before, the store
\* left empty and nextID reset.
ClearHandlerStep ==
    /\ Route(PathClear) = "clearWebhooksHandler"
    /\ (last'.kind # "none" /\ last'.path = PathClear) =>
          last'.handler = "clearWebhooksHandler"
    /\ last'.handler = "clearWebhooksHandler" =>
          /\ last'.kind # "rejected"
          /\ last'.resp.status # StatusMethodNotAllowed
    /\ (last'.kind = "called" /\ last'.handler = "clearWebhooksHandler") =>
          /\ op'[last'.proc] = "Clear"
          /\ method'[last'.proc] = last'.method
    /\ (last'.kind = "answered" /\ last'.handler = "clearWebhooksHandler") =>
          /\ last'.resp = ClearResp(Len(webhooks))
          /\ last'.resp.status = StatusOK
          /\ webhooks' = <<>>
          /\ nextID' = FirstID
    /\ \A p \in Procs :
          (pc[p] = "idle" /\ op'[p] = "Clear") =>
              last'.kind = "called" /\ last'.path = PathClear

\* C13: a request to "/webhooks/clear" is served by the clear handler
\* whatever its method, GET included, and never by the by-ID handler
\* registered on "/webhooks/": it always empties the store, resets the ID
\* counter and answers 200 with cleared_count the number of entries stored
\* just before; it never answers 405.
C13_ClearAnyMethod == [][ClearHandlerStep]_vars

\* C13 witness: a GET of "/webhooks/clear" has been answered 200 with
\* cleared_count 5, a full store having been emptied.
C13_Witness ==
    /\ last.kind = "answered"
    /\ last.handler = "clearWebhooksHandler"
    /\ last.method = "GET"
    /\ last.resp.status = StatusOK
    /\ last.resp.count = maxSize
    /\ webhooks = <<>>
    /\ nextID = FirstID

\* C17: whenever no writer holds the store's lock, the stored count is
\* len = min(maxSize, nextID - 1) and the stored IDs are, in order, the
\* numbers from nextID - len to nextID - 1; hence nextID >= 1, nextID is
\* greater than every stored ID, and the stored IDs are those of the len
\* Adds that took effect last since the last Clear.
C17_ContiguousIDs ==
    NoWriterInside =>
        LET len == Min(maxSize, nextID - 1)
        IN  /\ Len(webhooks) = len
            /\ IDsOf(webhooks) = [i \in 1..len |-> nextID - len + i - 1]
            /\ nextID >= 1
            /\ \A i \in DOMAIN webhooks : webhooks[i].ID < nextID
            /\ Len(returned) = nextID - 1
            /\ Range(IDsOf(webhooks)) = LastN(returned, len)

\* C17 witness: the lock is free, nextID is 7 and the store holds the IDs
\* 2 to 6, the entry with ID 1 having been evicted.
C17_Witness ==
    /\ NoWriterInside
    /\ muW = NoProc
    /\ nextID = maxSize + 2
    /\ IDsOf(webhooks) = [i \in 1..maxSize |-> i + 1]

\* C18, as a step.  Add's append puts one entry, with ID nextID, the
\* payload and the receipt time, behind the stored entries, which stay as
\* they are and in their order, and advances nextID by 1.  Until Add
\* returns nobody else changes the store.  Add's last step then finds the
\* store as it was before the Add plus the new entry: if there were fewer
\* than maxSize entries it leaves that, else there were maxSize and it
\* drops the front one, whose ID is the smallest, and nothing else; it
\* leaves nextID alone.  maxSize never changes.
AddFrameStep ==
    \A p \in Procs :
        /\ (pc[p] = "Append" /\ pc'[p] = "Evict") =>
              /\ webhooks' = webhooks \o
                    <<[ID |-> nextID, Payload |-> payload[p], Received |-> now]>>
              /\ nextID' = nextID + 1
              /\ maxSize' = maxSize
        /\ (pc[p] = "Evict" /\ pc'[p] = "Evict") =>
              UNCHANGED <<webhooks, nextID, maxSize>>
        /\ (pc[p] = "Evict" /\ pc'[p] = "idle") =>
              LET before == SubSeq(webhooks, 1, Len(webhooks) - 1)
                  added == webhooks[Len(webhooks)]
              IN  /\ IF Len(before) < maxSize
                     THEN webhooks' = before \o <<added>>
                     ELSE /\ Len(before) = maxSize
                          /\ \A i \in 2..Len(before) : before[1].ID < before[i].ID
                          /\ webhooks' = Tail(before) \o <<added>>
                  /\ nextID' = nextID
                  /\ maxSize' = maxSize

\* C18: an Add changes nothing but what it must.  On a store with fewer
\* than maxSize entries it appends one entry and leaves all existing entries
\* (ID, payload, receipt time) and their order unchanged; on a full store it
\* removes exactly one entry, the front one with the smallest ID, appends
\* the new entry at the back and leaves the other maxSize - 1 entries and
\* their order unchanged; in both cases nextID increases by exactly 1 and
\* maxSize is unchanged.
C18_AddFrame == [][AddFrameStep]_vars

\* C18 witness: an Add has returned from a store that was full, and the
\* entries it kept differ in payload and in receipt time.
C18_Witness ==
    /\ last.ret.op = "Add"
    /\ last.ret.id > maxSize
    /\ Len(webhooks) = maxSize
    /\ webhooks[1].Received # webhooks[maxSize - 1].Received
    /\ webhooks[1].Payload # webhooks[2].Payload

\* C15: a client that reads what it has just added, with the GetAll or the
\* GetByID of its ID that follows its Add, can find its entry gone, and after
\* a Clear even another entry under its ID (the witness); and it finds its
\* entry gone or replaced only when a Clear, or at least maxSize Adds of
\* other clients, took effect between its Add and its read: with neither it
\* finds its entry, with maxSize Adds and no Clear it finds none under its
\* ID, and another entry under its ID is found only after a Clear.  (After a
\* Clear the entry it finds may also equal its own in every field.)
C15_LostOnlyByClearOrEviction ==
    \A p \in Procs :
        /\ own[p].outcome \in {"missing", "other"} =>
              own[p].cleared \/ own[p].adds >= maxSize
        /\ own[p].outcome = "other" => own[p].cleared
        /\ own[p].outcome = "same" =>
              own[p].cleared \/ own[p].adds < maxSize
        /\ own[p].outcome = "none" => own[p] = NoOwn

\* A client has found none of its entry though no Clear has taken effect:
\* maxSize Adds of other clients have.
LostByEviction ==
    \E p \in Procs :
        /\ own[p].outcome = "missing"
        /\ own[p].lost
        /\ ~own[p].cleared
        /\ own[p].adds = maxSize

\* C15 witness: a client's Add has returned an ID, a Clear and another
\* client's Add have taken effect, and the client's GetByID of its ID,
\* called after that, has returned an entry with another payload.
C15_Witness ==
    \E p \in Procs :
        /\ own[p].outcome = "other"
        /\ own[p].lost
        /\ own[p].cleared
        /\ last.ret.op = "GetByID"
        /\ last.ret.found
        /\ last.ret.webhook.ID = own[p].entry.ID
        /\ last.ret.webhook.Payload # own[p].entry.Payload

\* The sequential store's reads: GetAll returns the entries, the newest
\* first; GetByID returns the entry with the ID and found, or the zero
\* record and not found.
SeqGetAll(s) == Reversed(s.webhooks)
SeqGetByID(s, i) ==
    IF \E k \in DOMAIN s.webhooks : s.webhooks[k].ID = i
    THEN [webhook |-> s.webhooks[CHOOSE k \in DOMAIN s.webhooks :
                                    s.webhooks[k].ID = i],
          found |-> TRUE]
    ELSE [webhook |-> ZeroWebhook, found |-> FALSE]

\* C16, as a step.  Every call returns what the same call returns on the
\* sequential store at the step at which it takes effect, a step of the call
\* itself: GetAll and GetByID what the sequential store holds then, Clear
\* the number of entries it holds, Add the ID it assigned there.  GetAll
\* never returns more than maxSize entries.  Whenever no writer is inside
\* its critical section the store is the sequential store.
LinearizableStep ==
    /\ \A p \in Procs :
          /\ GetAllTakesEffect(p) =>
                /\ last'.ret.all = SeqGetAll(linear)
                /\ Len(last'.ret.all) <= maxSize
          /\ GetByIDTakesEffect(p) =>
                /\ last'.ret.webhook = SeqGetByID(linear, id[p]).webhook
                /\ last'.ret.found = SeqGetByID(linear, id[p]).found
          /\ ClearTakesEffect(p) =>
                last'.ret.count = SeqClear(linear).result
          /\ AddReturns(p) => last'.ret.id = linear.added[p]
    /\ (\A p \in Procs : pc'[p] \notin {"Append", "Evict", "ClearBody"}) =>
          /\ webhooks' = linear'.webhooks
          /\ nextID' = linear'.nextID

C14_EveryOperationReturns ==
    \A p \in Procs :
        /\ (pc[p] # "idle") ~> (pc[p] = "idle")
        /\ (pc[p] \in {"Lock", "LockWait"}) ~> WriterInside(p)

\* C14 witness: an Add or Clear waits for the exclusive lock while a reader
\* that arrived after it is held back behind it.
C14_Witness ==
    \E p, q \in Procs :
        /\ pc[p] = "LockWait"
        /\ op[p] \in {"Add", "Clear"}
        /\ pc[q] = "RBlocked"
        /\ op[q] \in {"GetAll", "GetByID"}

=============================================================================
